---------------------------- MODULE Spec2Model ----------------------------
(***************************************************************************)
(* A model of security_scraper.py: the scan pipeline                       *)
(* (security_scan_website and the helpers it calls) and the operator loop  *)
(* of the __main__ block.                                                  *)
(*                                                                         *)
(* A Python str is modelled as a sequence of one-character strings, so     *)
(* that startswith, strip, lower, urljoin and the regular expressions are  *)
(* computed the way the library computes them.  The text an f-string puts  *)
(* in front of a value is kept as one element in front of the value's      *)
(* characters.                                                             *)
(***************************************************************************)
EXTENDS Integers, Sequences, FiniteSets, TLC

VARIABLES
    server,             \* the web: what every URL answers (fixed during a run)
    pc,                 \* the statement the program is at
    line,               \* the line input() returned, before .strip()
    url_input,          \* __main__: url_input
    scan_results,       \* the caller's last value returned by security_scan_website
    results,            \* security_scan_website: results
    main_response,      \* security_scan_website: main_response
    accessible_panels,  \* check_exposed_admin_panels: accessible_panels
    path_idx,           \* check_exposed_admin_panels: position of the for loop
    fetched,            \* the URLs requests.get was called with, in this scan
    stdout              \* what the current loop iteration printed, line by line

vars == <<server, pc, line, url_input, scan_results, results, main_response,
          accessible_panels, path_idx, fetched, stdout>>

(***************************************************************************)
(* Strings                                                                 *)
(***************************************************************************)
UpperCase == <<"A","B","C","D","E","F","G","H","I","J","K","L","M","N","O","P","Q","R","S","T","U","V","W","X","Y","Z">>
LowerCase == <<"a","b","c","d","e","f","g","h","i","j","k","l","m","n","o","p","q","r","s","t","u","v","w","x","y","z">>
Digits == {"0","1","2","3","4","5","6","7","8","9"}
Whitespace == {" ", "\t"}

Range(s) == {s[i] : i \in DOMAIN s}

\* str.lower(), one character
LowerChar(c) ==
    IF \E i \in DOMAIN UpperCase : UpperCase[i] = c
    THEN LowerCase[CHOOSE i \in DOMAIN UpperCase : UpperCase[i] = c]
    ELSE c

\* str.lower()
Lower(s) == [i \in DOMAIN s |-> LowerChar(s[i])]

\* str.startswith(prefix)
StartsWith(s, prefix) ==
    /\ Len(prefix) <= Len(s)
    /\ SubSeq(s, 1, Len(prefix)) = prefix

\* sub in s
Contains(s, sub) ==
    \E i \in 1..(Len(s) - Len(sub) + 1) : SubSeq(s, i, i + Len(sub) - 1) = sub

\* str.strip(): without the leading and the trailing whitespace
Strip(s) ==
    LET inner == {i \in DOMAIN s : s[i] \notin Whitespace}
    IN  IF inner = {} THEN << >>
        ELSE LET lo == CHOOSE i \in inner : \A j \in inner : i <= j
                 hi == CHOOSE i \in inner : \A j \in inner : j <= i
             IN  SubSeq(s, lo, hi)

\* str(n) for the status codes of the model
Str(n) ==
    CASE n = 200 -> <<"2","0","0">>
      [] n = 204 -> <<"2","0","4">>
      [] n = 404 -> <<"4","0","4">>
      [] n = 500 -> <<"5","0","0">>
      [] OTHER   -> <<"0">>

\* f"{prefix}{value}"
Fmt(prefix, value) == <<prefix>> \o value

RECURSIVE Concat(_)
\* "".join(strings)
Concat(strings) ==
    IF strings = << >> THEN << >>
    ELSE Head(strings) \o Concat(Tail(strings))

(***************************************************************************)
(* Configuration                                                           *)
(***************************************************************************)
\* ADMIN_PATHS
ADMIN_PATHS == <<
    <<"/","a","d","m","i","n">>, <<"/","a","d","m","i","n","i","s","t","r","a","t","o","r">>, <<"/","l","o","g","i","n">>, <<"/","w","p","-","a","d","m","i","n">>, <<"/","d","a","s","h","b","o","a","r","d">>,
    <<"/","c","p","a","n","e","l">>, <<"/","p","h","p","m","y","a","d","m","i","n">>, <<"/","w","e","b","m","a","i","l">>, <<"/","u","s","e","r","/","l","o","g","i","n">>, <<"/","p","a","n","e","l">> >>

(***************************************************************************)
(* urllib.parse.urljoin(base, url), for a url that is an absolute path     *)
(* with no dot segments, as every entry of ADMIN_PATHS is                  *)
(***************************************************************************)
SchemeChars == Range(LowerCase) \cup Range(UpperCase) \cup Digits \cup {"+", "-", "."}
Letters == Range(LowerCase) \cup Range(UpperCase)

\* the schemes of urllib.parse.uses_relative and uses_netloc that occur here
UsesRelative == { << >>, <<"h","t","t","p">>, <<"h","t","t","p","s">>, <<"f","t","p">> }
UsesNetloc == { << >>, <<"h","t","t","p">>, <<"h","t","t","p","s">>, <<"f","t","p">> }

\* the position of the first c of cs in s, or Len(s) + 1
FirstOf(s, cs) ==
    IF \E i \in DOMAIN s : s[i] \in cs
    THEN CHOOSE i \in DOMAIN s : s[i] \in cs /\ \A j \in 1..(i - 1) : s[j] \notin cs
    ELSE Len(s) + 1

\* urlsplit: [scheme, netloc, path] (path: the rest, query and fragment included)
urlsplit(url) ==
    LET colon == FirstOf(url, {":"})
        has_scheme ==
            /\ 1 < colon /\ colon <= Len(url)
            /\ url[1] \in Letters
            /\ \A j \in 1..(colon - 1) : url[j] \in SchemeChars
        scheme == IF has_scheme THEN Lower(SubSeq(url, 1, colon - 1)) ELSE << >>
        rest == IF has_scheme THEN SubSeq(url, colon + 1, Len(url)) ELSE url
        has_netloc == StartsWith(rest, <<"/","/">>)
        after == IF has_netloc THEN SubSeq(rest, 3, Len(rest)) ELSE rest
        stop == FirstOf(after, {"/", "?", "#"})
    IN  [scheme |-> scheme,
         netloc |-> IF has_netloc THEN SubSeq(after, 1, stop - 1) ELSE << >>,
         path   |-> IF has_netloc THEN SubSeq(after, stop, Len(after)) ELSE rest]

\* urlunparse of (scheme, netloc, path, '', '', '')
urlunsplit(scheme, netloc, path) ==
    LET u == IF netloc # << >>
                \/ (scheme # << >> /\ scheme \in UsesNetloc /\ ~StartsWith(path, <<"/","/">>))
             THEN <<"/","/">> \o netloc \o path
             ELSE path
    IN  IF scheme # << >> THEN scheme \o <<":">> \o u ELSE u

urljoin(base, path) ==
    IF base = << >> THEN path
    ELSE LET b == urlsplit(base)
         IN  IF b.scheme \notin UsesRelative THEN path
             ELSE urlunsplit(b.scheme, b.netloc, path)

(***************************************************************************)
(* The pages: what BeautifulSoup(response.text, 'html.parser') finds       *)
(***************************************************************************)
\* A parsed document:
\*   has_title, title : soup.title and its text
\*   metas   : the <meta> elements, [name, has_content, content]
\*   strings : the text nodes after the title, in document order, [tag, s]
\*   links   : the <script> and <link> elements, in document order,
\*             [has_src, src, has_href, href]
NoDoc == [has_title |-> FALSE, title |-> << >>, metas |-> << >>,
          strings |-> << >>, links |-> << >>]

(***************************************************************************)
(* The web                                                                 *)
(***************************************************************************)
\* what a URL answers: an error of the transport, or a final status code
NetErr == [kind |-> "error", status_code |-> 0]
Http(code) == [kind |-> "http", status_code |-> code]
Outcomes == {NetErr, Http(200), Http(204), Http(404), Http(500)}

\* url asks for one of the paths of ADMIN_PATHS
IsAdminUrl(url) == urlsplit(url).path \in Range(ADMIN_PATHS)

\* What server s answers for url.  s.site answers for the pages of a site,
\* s.admin for its administrative paths, and s.exc lists the URLs that answer
\* otherwise; s.page is the document a successful answer carries.
ServerOutcome(s, url) ==
    IF url \in DOMAIN s.exc THEN s.exc[url]
    ELSE IF IsAdminUrl(url) THEN s.admin
    ELSE s.site

(***************************************************************************)
(* fetch_url_content                                                       *)
(***************************************************************************)
None == [is_none |-> TRUE, status_code |-> 0, doc |-> NoDoc]

\* response.raise_for_status() raises
RaisesForStatus(o) == 400 <= o.status_code /\ o.status_code < 600

\* the value fetch_url_content(url) returns
fetch_url_content(url) ==
    LET o == ServerOutcome(server, url)
    IN  IF o.kind = "error" \/ RaisesForStatus(o) THEN None
        ELSE [is_none |-> FALSE, status_code |-> o.status_code, doc |-> server.page]

\* bool(response): None is false, a Response is true when its status is below 400
Truthy(response) == ~response.is_none /\ response.status_code < 400

(***************************************************************************)
(* Regular expressions (module re)                                         *)
(*                                                                         *)
(* A pattern is a sequence of elements:                                    *)
(*   lit  a literal text                 alt  (a|b|...), the first that fits*)
(*   opt  an optional literal, x?        ws   \s+                          *)
(*   ver  \d+\.\d+ followed by at most n groups (\.\d+)?                    *)
(* Every repetition is greedy.  In the patterns of the program an element  *)
(* that took less than it can never lets the rest match (what follows a    *)
(* run of digits is not a digit, what follows \s+ is not a space, no       *)
(* alternative is a prefix of another), so the first greedy attempt is the *)
(* match re finds.                                                         *)
(***************************************************************************)
Lit(s) == [t |-> "lit", s |-> s, alts |-> << >>, n |-> 0]
Alt(alts) == [t |-> "alt", s |-> << >>, alts |-> alts, n |-> 0]
Opt(s) == [t |-> "opt", s |-> s, alts |-> << >>, n |-> 0]
Ws == [t |-> "ws", s |-> << >>, alts |-> << >>, n |-> 0]
Ver(n) == [t |-> "ver", s |-> << >>, alts |-> << >>, n |-> n]

RegexSpace == {" ", "\t", "\n"}

\* the literal at s[i..], under re.IGNORECASE when ic: the position after it, or 0
MatchLit(literal, s, i, ic) ==
    IF /\ i + Len(literal) - 1 <= Len(s)
       /\ \A j \in DOMAIN literal :
            IF ic THEN LowerChar(s[i + j - 1]) = LowerChar(literal[j])
                  ELSE s[i + j - 1] = literal[j]
    THEN i + Len(literal)
    ELSE 0

RECURSIVE RunEnd(_, _, _)
\* the position after the longest run of characters of cs that starts at s[i]
RunEnd(s, i, cs) ==
    IF i <= Len(s) /\ s[i] \in cs THEN RunEnd(s, i + 1, cs) ELSE i

RECURSIVE MatchGroups(_, _, _)
\* at most n times (\.\d+)? at s[i..]: the position after them
MatchGroups(s, i, n) ==
    IF n > 0 /\ i <= Len(s) /\ s[i] = "." /\ RunEnd(s, i + 1, Digits) > i + 1
    THEN MatchGroups(s, RunEnd(s, i + 1, Digits), n - 1)
    ELSE i

\* \d+\.\d+ and at most n groups (\.\d+)? at s[i..]: the position after, or 0
MatchVer(s, i, n) ==
    LET e1 == RunEnd(s, i, Digits)
        e2 == RunEnd(s, e1 + 1, Digits)
    IN  IF e1 > i /\ e1 <= Len(s) /\ s[e1] = "." /\ e2 > e1 + 1
        THEN MatchGroups(s, e2, n)
        ELSE 0

RECURSIVE MatchAlt(_, _, _, _)
MatchAlt(alts, s, i, ic) ==
    IF alts = << >> THEN 0
    ELSE IF MatchLit(Head(alts), s, i, ic) # 0 THEN MatchLit(Head(alts), s, i, ic)
    ELSE MatchAlt(Tail(alts), s, i, ic)

\* one element at s[i..]: the position after it, or 0
MatchElem(e, s, i, ic) ==
    CASE e.t = "lit" -> MatchLit(e.s, s, i, ic)
      [] e.t = "alt" -> MatchAlt(e.alts, s, i, ic)
      [] e.t = "opt" -> IF MatchLit(e.s, s, i, ic) # 0 THEN MatchLit(e.s, s, i, ic) ELSE i
      [] e.t = "ws"  -> IF RunEnd(s, i, RegexSpace) > i THEN RunEnd(s, i, RegexSpace) ELSE 0
      [] e.t = "ver" -> MatchVer(s, i, e.n)

RECURSIVE MatchAt(_, _, _, _)
\* the pattern at s[i..]: the position after the match, or 0
MatchAt(pattern, s, i, ic) ==
    IF pattern = << >> THEN i
    ELSE LET e == MatchElem(Head(pattern), s, i, ic)
         IN  IF e = 0 THEN 0 ELSE MatchAt(Tail(pattern), s, e, ic)

NoMatch == [found |-> FALSE, start |-> 0, end |-> 0]

\* re.search(pattern, s, flags): the leftmost match, [start, end) in s
re_search(pattern, s, ic) ==
    LET hits == {i \in 1..(Len(s) + 1) : MatchAt(pattern, s, i, ic) # 0}
    IN  IF hits = {} THEN NoMatch
        ELSE LET i == CHOOSE h \in hits : \A g \in hits : h <= g
             IN  [found |-> TRUE, start |-> i, end |-> MatchAt(pattern, s, i, ic)]

\* match.group(0)
Group0(s, m) == SubSeq(s, m.start, m.end - 1)

(***************************************************************************)
(* BeautifulSoup                                                           *)
(***************************************************************************)
\* soup.get_text(): every text node of the document, joined
get_text(soup) ==
    (IF soup.has_title THEN soup.title ELSE << >>)
        \o Concat([i \in DOMAIN soup.strings |-> soup.strings[i].s])

\* soup.title.get_text() if soup.title else 'N/A'
TitleText(soup) == IF soup.has_title THEN soup.title ELSE <<"N","/","A">>

(***************************************************************************)
(* check_open_directory                                                    *)
(***************************************************************************)
IndexOfPattern == << Lit(<<"I","n","d","e","x"," ","o","f"," ","/">>) >>
ListingHeaderPattern ==
    << Lit(<<"N","a","m","e">>), Ws, Lit(<<"L","a","s","t"," ","m","o","d","i","f","i","e","d">>), Ws, Lit(<<"S","i","z","e">>), Ws, Lit(<<"D","e","s","c","r","i","p","t","i","o","n">>) >>

check_open_directory(response) ==
    IF ~Truthy(response) THEN FALSE
    ELSE LET soup == response.doc
         IN  \/ soup.has_title /\ Contains(Lower(soup.title), <<"i","n","d","e","x"," ","o","f"," ","/">>)
             \/ soup.has_title /\ re_search(IndexOfPattern, soup.title, TRUE).found
             \/ \E i \in DOMAIN soup.strings :
                    re_search(IndexOfPattern, soup.strings[i].s, TRUE).found
             \/ \E i \in DOMAIN soup.strings :
                    /\ soup.strings[i].tag = "pre"
                    /\ re_search(ListingHeaderPattern, soup.strings[i].s, TRUE).found

(***************************************************************************)
(* check_outdated_software                                                 *)
(***************************************************************************)
MetaMsg == "Potential software identified via meta tag: "
TextMsg == "Potential software version found in text: "
LinkMsg == "Potential version parameter in resource URL: "

CmsNames == << <<"w","o","r","d","p","r","e","s","s">>, <<"j","o","o","m","l","a">>, <<"d","r","u","p","a","l">>, <<"m","a","g","e","n","t","o">> >>

\* faulty variant: no pattern takes a fourth component
footer_text_patterns_three == <<
    << Lit(<<"p","o","w","e","r","e","d"," ","b","y"," ">>), Alt(CmsNames), Lit(<<" ">>), Opt(<<"v">>), Ver(1) >>,
    << Lit(<<"v","e","r","s","i","o","n"," ">>), Ver(1) >>,
    << Lit(<<"a","p","a","c","h","e","/">>), Ver(1) >> >>

\* footer_text_patterns
footer_text_patterns == <<
    << Lit(<<"p","o","w","e","r","e","d"," ","b","y"," ">>), Alt(CmsNames), Lit(<<" ">>), Opt(<<"v">>), Ver(2) >>,
    << Lit(<<"v","e","r","s","i","o","n"," ">>), Ver(2) >>,
    << Lit(<<"a","p","a","c","h","e","/">>), Ver(1) >> >>

\* r'ver=(\d+\.\d+(\.\d+)?)'
VerParamPattern == << Lit(<<"v","e","r","=">>), Ver(1) >>

\* soup.find('meta', attrs={'name': 'generator'}): the first one, 0 when there is none
FindGenerator(soup) ==
    LET gens == {i \in DOMAIN soup.metas : soup.metas[i].name = "generator"}
    IN  IF gens = {} THEN 0 ELSE CHOOSE i \in gens : \A j \in gens : i <= j

\* the generator meta tag check
MetaFindings(soup) ==
    LET g == FindGenerator(soup)
    IN  IF g # 0 /\ soup.metas[g].has_content
        THEN << Fmt(MetaMsg, soup.metas[g].content) >>
        ELSE << >>

RECURSIVE TextFindings(_, _)
\* for pattern in footer_text_patterns: ... findings.append(match.group(0))
TextFindings(patterns, text) ==
    IF patterns = << >> THEN << >>
    ELSE LET match == re_search(Head(patterns), text, TRUE)
         IN  (IF match.found THEN << Fmt(TextMsg, Group0(text, match)) >> ELSE << >>)
                \o TextFindings(Tail(patterns), text)

\* src = link.get('src') or link.get('href'): the empty text when neither is usable
LinkSrc(link) ==
    IF link.has_src /\ link.src # << >> THEN link.src
    ELSE IF link.has_href THEN link.href
    ELSE << >>

\* the finding of one <script> or <link> element, if any
LinkFinding(link) ==
    LET src == LinkSrc(link)
        match == re_search(VerParamPattern, src, FALSE)
    IN  IF src # << >> /\ match.found
        THEN << <<LinkMsg>> \o src \o <<" (version: ">>
                    \o SubSeq(src, match.start + 4, match.end - 1) \o <<")">> >>
        ELSE << >>

RECURSIVE LinkFindings(_)
\* for link in soup.find_all(['script', 'link']): ...
LinkFindings(links) ==
    IF links = << >> THEN << >>
    ELSE LinkFinding(Head(links)) \o LinkFindings(Tail(links))

\* faulty variant: the resource URLs are checked before the page text
check_outdated_software_links_first(soup) ==
    MetaFindings(soup)
        \o LinkFindings(soup.links)
        \o TextFindings(footer_text_patterns, get_text(soup))

check_outdated_software(soup) ==
    MetaFindings(soup)
        \o TextFindings(footer_text_patterns, get_text(soup))
        \o LinkFindings(soup.links)

(***************************************************************************)
(* security_scan_website                                                   *)
(***************************************************************************)
FetchErrorMsg == "Could not fetch main URL: "
TitleMsg == "Title: "
StatusMsg == "HTTP Status Code: "
OpenDirectoryMsg == <<"Detected potential open directory listing on main URL.">>

NoFindings == [open_directory |-> FALSE,
               outdated_software_indicators |-> << >>,
               exposed_admin_panels |-> << >>,
               general_info |-> << >>]

\* no report: the name results is not bound outside a call
NoResults == [target_url |-> << >>, status |-> "None",
              findings |-> NoFindings, errors |-> << >>]

\* faulty variant: the lists of the report of the call before are used again
NewResultsReusing(target_url) ==
    IF scan_results.status = "None"
    THEN [target_url |-> target_url, status |-> "Incomplete",
          findings |-> NoFindings, errors |-> << >>]
    ELSE [scan_results EXCEPT !.target_url = target_url, !.status = "Incomplete"]

\* results = {...}: the report a call starts with
NewResults(target_url) ==
    [target_url |-> target_url, status |-> "Incomplete",
     findings |-> NoFindings, errors |-> << >>]

\* the state a call of security_scan_website(target_url) starts in
Enter(target_url) ==
    /\ results' = NewResults(target_url)
    /\ main_response' = None
    /\ accessible_panels' = << >>
    /\ path_idx' = 0
    /\ fetched' = << >>
    /\ pc' = "fetch_main"

\* faulty variant: a failed request is tried once more
RequestedWithRetry(log, url) ==
    LET o == ServerOutcome(server, url)
    IN  IF o.kind = "error" THEN Append(Append(log, url), url) ELSE Append(log, url)

\* what one call of requests.get adds to the requests made
Requested(log, url) == Append(log, url)

\* faulty variant: the error message does not name the URL
MainFetchFailedUnnamed(r) ==
    [r EXCEPT !.errors = Append(@, <<FetchErrorMsg>>),
              !.status = "Failed"]

\* the report after the main page could not be fetched
MainFetchFailed(r) ==
    [r EXCEPT !.errors = Append(@, Fmt(FetchErrorMsg, r.target_url)),
              !.status = "Failed"]

\* 1. Fetch the main page content
FetchMain ==
    /\ pc = "fetch_main"
    /\ main_response' = fetch_url_content(results.target_url)
    /\ fetched' = Requested(fetched, results.target_url)
    /\ IF ~Truthy(main_response')
       THEN /\ results' = MainFetchFailed(results)
            /\ pc' = "return"
       ELSE /\ results' = results
            /\ pc' = "general_info"
    /\ UNCHANGED <<server, line, url_input, scan_results, accessible_panels,
                   path_idx, stdout>>

\* the general information of a fetched main page
WithGeneralInfo(r, response) ==
    [r EXCEPT !.findings.general_info =
        @ \o << Fmt(TitleMsg, TitleText(response.doc)),
                Fmt(StatusMsg, Str(response.status_code)) >>]

GeneralInfo ==
    /\ pc = "general_info"
    /\ results' = WithGeneralInfo(results, main_response)
    /\ pc' = "open_directory"
    /\ UNCHANGED <<server, line, url_input, scan_results, main_response,
                   accessible_panels, path_idx, fetched, stdout>>

\* 2. Check for Open Directory on the main URL
WithOpenDirectory(r, response) ==
    IF check_open_directory(response)
    THEN [r EXCEPT !.findings.open_directory = TRUE,
                   !.findings.general_info = Append(@, OpenDirectoryMsg)]
    ELSE r

OpenDirectory ==
    /\ pc = "open_directory"
    /\ results' = WithOpenDirectory(results, main_response)
    /\ pc' = "outdated_software"
    /\ UNCHANGED <<server, line, url_input, scan_results, main_response,
                   accessible_panels, path_idx, fetched, stdout>>

\* 3. Check for Outdated Software Indicators
WithOutdatedSoftware(r, indicators) ==
    [r EXCEPT !.findings.outdated_software_indicators = @ \o indicators]

OutdatedSoftware ==
    /\ pc = "outdated_software"
    /\ results' = WithOutdatedSoftware(results, check_outdated_software(main_response.doc))
    /\ pc' = "admin_panels"
    /\ UNCHANGED <<server, line, url_input, scan_results, main_response,
                   accessible_panels, path_idx, fetched, stdout>>

\* 4. Check for Exposed Admin Panels: check_exposed_admin_panels is entered
AdminPanelsStart ==
    /\ pc = "admin_panels"
    /\ accessible_panels' = << >>
    /\ path_idx' = 1
    /\ pc' = "probe"
    /\ UNCHANGED <<server, line, url_input, scan_results, results, main_response,
                   fetched, stdout>>

\* faulty variant: any successful response counts
IsAccessibleAnySuccess(response) == Truthy(response)

\* the response makes the path count as an accessible panel
IsAccessible(response) == Truthy(response) /\ response.status_code = 200

\* accessible_panels after the probe of one path
Probed(panels, full_url, response) ==
    IF IsAccessible(response) THEN Append(panels, full_url) ELSE panels

\* the path the for loop of check_exposed_admin_panels takes at position i
PathAt(i) == ADMIN_PATHS[i]

\* faulty variant: the loop ends at the first probe that fails
AfterProbeStopping(i, response) ==
    IF response.is_none THEN Len(ADMIN_PATHS) + 1 ELSE i + 1

\* the position of the for loop after the probe at position i
AfterProbe(i, response) == i + 1

\* one iteration of: for path in ADMIN_PATHS
ProbePath ==
    /\ pc = "probe"
    /\ path_idx <= Len(ADMIN_PATHS)
    /\ LET full_url == urljoin(results.target_url, PathAt(path_idx))
           response == fetch_url_content(full_url)
       IN  /\ fetched' = Requested(fetched, full_url)
           /\ accessible_panels' = Probed(accessible_panels, full_url, response)
           /\ path_idx' = AfterProbe(path_idx, response)
    /\ UNCHANGED <<server, pc, line, url_input, scan_results, results,
                   main_response, stdout>>

\* faulty variant: the scan completes only when a panel was found
CompletedIfFound(r, panels) ==
    [r EXCEPT !.findings.exposed_admin_panels = @ \o panels,
              !.status = IF panels = << >> THEN @ ELSE "Completed"]

\* the report when the scan ends
Completed(r, panels) ==
    [r EXCEPT !.findings.exposed_admin_panels = @ \o panels,
              !.status = "Completed"]

\* check_exposed_admin_panels returns; the panels are recorded, the scan completes
Complete ==
    /\ pc = "probe"
    /\ path_idx > Len(ADMIN_PATHS)
    /\ results' = Completed(results, accessible_panels)
    /\ pc' = "return"
    /\ UNCHANGED <<server, line, url_input, scan_results, main_response,
                   accessible_panels, path_idx, fetched, stdout>>

Scan ==
    \/ FetchMain
    \/ GeneralInfo
    \/ OpenDirectory
    \/ OutdatedSoftware
    \/ AdminPanelsStart
    \/ ProbePath
    \/ Complete

(***************************************************************************)
(* A caller of security_scan_website(target_url)                           *)
(***************************************************************************)
Call(target_url) ==
    /\ pc = "idle"
    /\ Enter(target_url)
    /\ UNCHANGED <<server, line, url_input, scan_results, stdout>>

\* return results, to a caller that keeps it
Return ==
    /\ pc = "return"
    /\ scan_results' = results
    /\ results' = NoResults
    /\ pc' = "idle"
    /\ UNCHANGED <<server, line, url_input, main_response, accessible_panels,
                   path_idx, fetched, stdout>>

(***************************************************************************)
(* The operator loop of __main__                                           *)
(***************************************************************************)
\* the URL does not start with http:// or https://
MissingScheme(url) == ~(StartsWith(url, <<"h","t","t","p",":","/","/">>) \/ StartsWith(url, <<"h","t","t","p","s",":","/","/">>))

\* Ensure the URL has a scheme
Normalize(url) == IF MissingScheme(url) THEN <<"h","t","t","p","s",":","/","/">> \o url ELSE url

\* faulty variant: only the lower-case spelling ends the loop
IsExitLowerOnly(url) == url = <<"e","x","i","t">>

\* url_input.lower() == 'exit'
IsExit(url) == Lower(url) = <<"e","x","i","t">>

\* one input(...): exit, ask again, or start the scan of the URL
ReadLine(l) ==
    /\ pc = "prompt"
    /\ line' = l
    /\ LET url == Strip(l)
       IN  IF IsExit(url)
           THEN /\ url_input' = url
                /\ pc' = "exited"
                /\ stdout' = << >>
                /\ UNCHANGED <<results, main_response, accessible_panels,
                               path_idx, fetched>>
           ELSE IF url = << >>
           THEN /\ url_input' = url
                /\ pc' = "prompt"
                /\ stdout' = << <<"Please enter a URL.">> >>
                /\ UNCHANGED <<results, main_response, accessible_panels,
                               path_idx, fetched>>
           ELSE /\ url_input' = Normalize(url)
                /\ stdout' = IF MissingScheme(url)
                             THEN << <<"Warning: URL missing scheme (http:// or https://). Attempting with https://">> >>
                             ELSE << >>
                /\ Enter(url_input')
    /\ UNCHANGED <<server, scan_results>>

\* "    - " before every entry
Bullets(indent, entries) == [i \in DOMAIN entries |-> Fmt(indent, entries[i])]

\* the lines the loop prints for a report
ReportLines(r) ==
    << <<"--- Scan Results ---">>,
       Fmt("Target URL: ", r.target_url),
       <<"Scan Status: ", r.status>>,
       <<"[+] General Information:">> >>
    \o Bullets("    - ", r.findings.general_info)
    \o << <<"[+] Potential Vulnerability Indicators:">> >>
    \o (IF r.findings.open_directory
        THEN << <<"    - **OPEN DIRECTORY DETECTED!** This could expose sensitive files.">> >>
        ELSE << <<"    - No obvious open directory listing detected on main URL.">> >>)
    \o (IF r.findings.outdated_software_indicators # << >>
        THEN << <<"    - **OUTDATED SOFTWARE INDICATORS FOUND:**">> >>
             \o Bullets("        - ", r.findings.outdated_software_indicators)
             \o << <<"      (Outdated software can lead to known vulnerabilities.)">> >>
        ELSE << <<"    - No clear outdated software indicators found.">> >>)
    \o (IF r.findings.exposed_admin_panels # << >>
        THEN << <<"    - **EXPOSED ADMIN PANELS/LOGIN PAGES FOUND:**">> >>
             \o Bullets("        - ", r.findings.exposed_admin_panels)
             \o << <<"      (Publicly accessible admin panels increase attack surface.)">> >>
        ELSE << <<"    - No common admin panel paths found to be directly accessible.">> >>)
    \o (IF r.errors # << >>
        THEN << <<"[!] Errors during scan:">> >> \o Bullets("    - ", r.errors)
        ELSE << >>)
    \o << <<"--- Scan Complete ---">> >>


\* scan_results = security_scan_website(url_input), and the report is printed
PrintReport ==
    /\ pc = "return"
    /\ scan_results' = results
    /\ results' = NoResults
    /\ stdout' = stdout \o ReportLines(results)
    /\ pc' = "prompt"
    /\ UNCHANGED <<server, line, url_input, main_response, accessible_panels,
                   path_idx, fetched>>

(***************************************************************************)
(* The bounds of the model, and the inputs drawn within them               *)
(***************************************************************************)
\* the URLs that may answer otherwise than their server's rule, at most
MaxExceptions == 1
\* the components of the longest version number in a page text
MaxComponents == 5

\* the URLs security_scan_website is called with
Targets == { <<"h","t","t","p","s",":","/","/","a",".","i","o">>, <<"h","t","t","p","s",":","/","/","a",".","i","o","/","a","d","m","i","n">>, <<"h","t","t","p",":","/","/","b",".","i","o","/","x","/","y">> }

\* the URLs a server may answer for by exception: the first three administrative
\* paths and the last one, on one site
ExceptionUrls == { <<"h","t","t","p","s",":","/","/","a",".","i","o","/","a","d","m","i","n">>, <<"h","t","t","p","s",":","/","/","a",".","i","o","/","a","d","m","i","n","i","s","t","r","a","t","o","r">>,
                   <<"h","t","t","p","s",":","/","/","a",".","i","o","/","l","o","g","i","n">>, <<"h","t","t","p","s",":","/","/","a",".","i","o","/","p","a","n","e","l">> }

\* a page with nothing to find
PlainDoc ==
    [has_title |-> FALSE, title |-> << >>, metas |-> << >>,
     strings |-> << [tag |-> "p", s |-> <<"H","e","l","l","o">>] >>, links |-> << >>]

\* a page on which every check finds something
RichDoc ==
    [has_title |-> TRUE, title |-> <<"I","n","d","e","x"," ","o","f"," ","/","x">>,
     metas |-> << [name |-> "generator", has_content |-> TRUE, content |-> <<"W","o","r","d","P","r","e","s","s"," ","5",".","8">>] >>,
     strings |-> << [tag |-> "p", s |-> <<"P","o","w","e","r","e","d"," ","b","y"," ","W","o","r","d","P","r","e","s","s"," ","5",".","8",".","1">>] >>,
     links |-> << [has_src |-> TRUE, src |-> <<"/","x",".","j","s","?","v","e","r","=","5",".","8",".","1">>,
                   has_href |-> FALSE, href |-> << >>] >>]

Servers(docs) ==
    { [site |-> s, admin |-> a, exc |-> e, page |-> d] :
        s \in Outcomes, a \in {Http(404), Http(200)}, d \in docs,
        e \in UNION { [U -> Outcomes] :
                        U \in {V \in SUBSET ExceptionUrls : Cardinality(V) <= MaxExceptions} } }

\* the servers of the scans: an exception is an exception to the server's rule
ScanServers == {s \in Servers({PlainDoc, RichDoc}) : \A u \in DOMAIN s.exc : s.exc[u] # s.admin}

\* the servers of the operator loop: no exceptions
LoopServers == {s \in Servers({RichDoc}) : DOMAIN s.exc = {}}

\* the lines the operator types
Lines == { <<"e","x","i","t">>, <<"E","X","I","T">>, <<" ","E","x","i","t"," ">>, <<"e","x","i","t",".","i","o">>, << >>, <<" "," ">>,
           <<"a",".","i","o">>, <<" ","a",".","i","o"," ">>, <<"h","t","t","p",":","/","/","a",".","i","o">>, <<"h","t","t","p","s",":","/","/","a",".","i","o","/","a","d","m","i","n">>,
           <<"H","T","T","P",":","/","/","a",".","i","o">>, <<"f","t","p",":","/","/","a",".","i","o">> }

(***************************************************************************)
(* The specifications                                                      *)
(***************************************************************************)
Start(servers, at) ==
    /\ server \in servers
    /\ pc = at
    /\ line = << >>
    /\ url_input = << >>
    /\ scan_results = NoResults
    /\ results = NoResults
    /\ main_response = None
    /\ accessible_panels = << >>
    /\ path_idx = 0
    /\ fetched = << >>
    /\ stdout = << >>

\* security_scan_website, called again and again
Init == Start(ScanServers, "idle")

Next ==
    \/ \E t \in Targets : Call(t)
    \/ Scan
    \/ Return

Spec == Init /\ [][Next]_vars

\* the operator loop
InitLoop == Start(LoopServers, "prompt")

NextLoop ==
    \/ \E l \in Lines : ReadLine(l)
    \/ Scan
    \/ PrintReport

SpecLoop == InitLoop /\ [][NextLoop]_vars

(***************************************************************************)
(* The pages of the software-version detector's runs                       *)
(***************************************************************************)
DigitChars == <<"1","2","3","4","5","6","7","8","9","0">>

\* the i-th component of a version number: 1, 20, 3, 40, ...
Component(i) ==
    LET d == DigitChars[((i - 1) % 10) + 1]
    IN  IF i % 2 = 0 THEN <<d, "0">> ELSE <<d>>

RECURSIVE Version(_)
\* a version number of k components: "1", "1.20", "1.20.3", ...
Version(k) ==
    IF k = 0 THEN << >>
    ELSE IF k = 1 THEN Component(1)
    ELSE Version(k - 1) \o <<".">> \o Component(k)

\* what comes before a version number in a page text
Leads == { <<"P","o","w","e","r","e","d"," ","b","y"," ","W","o","r","d","P","r","e","s","s"," ">>, <<"p","o","w","e","r","e","d"," ","b","y"," ","j","o","o","m","l","a"," ","v">>, <<"V","e","r","s","i","o","n"," ">>,
           <<"A","p","a","c","h","e","/">>, <<"p","o","w","e","r","e","d"," ","b","y"," ","w","i","x"," ">> }

\* a lead and a version number of 0 to MaxComponents components
Phrases == {l \o Version(k) : l \in Leads, k \in 0..MaxComponents}

\* the page texts: one phrase, or two
Texts ==
    Phrases
        \cup {p \o <<".">> : p \in Phrases}
        \cup {p \o <<" ">> \o q : p \in Phrases, q \in Phrases}

Script(src) == [has_src |-> TRUE, src |-> src, has_href |-> FALSE, href |-> << >>]
Link(href) == [has_src |-> FALSE, src |-> << >>, has_href |-> TRUE, href |-> href]

\* the rest of a page: its title, its meta tags, its scripts and style sheets
Frames == {
    [has_title |-> FALSE, title |-> << >>, metas |-> << >>, links |-> << >>],
    [has_title |-> TRUE, title |-> <<"S","h","o","p">>,
     metas |-> << [name |-> "viewport", has_content |-> TRUE, content |-> <<"w","i","d","t","h">>],
                  [name |-> "generator", has_content |-> TRUE, content |-> <<"W","o","r","d","P","r","e","s","s"," ","5",".","8">>] >>,
     links |-> << Script(<<"/","a",".","j","s","?","v","e","r","=","5",".","8",".","1">>), Link(<<"/","b",".","c","s","s">>), Link(<<"/","c",".","c","s","s","?","v","e","r","=","2",".","0">>),
                  Script(<<"/","a",".","j","s","?","v","e","r","=","5",".","8",".","1">>) >>],
    [has_title |-> TRUE, title |-> <<"v","e","r","s","i","o","n"," ","9",".","9">>,
     metas |-> << [name |-> "generator", has_content |-> FALSE, content |-> << >>],
                  [name |-> "generator", has_content |-> TRUE, content |-> <<"J","o","o","m","l","a">>] >>,
     links |-> << [has_src |-> TRUE, src |-> << >>, has_href |-> TRUE, href |-> <<"/","d",".","c","s","s","?","v","e","r","=","1",".","2",".","3",".","4">>],
                  Script(<<"/","e",".","j","s","?","v","e","r","=","7">>),
                  [has_src |-> FALSE, src |-> << >>, has_href |-> FALSE, href |-> << >>] >>] }

DetectDocs ==
    { [has_title |-> f.has_title, title |-> f.title, metas |-> f.metas,
       strings |-> << [tag |-> "p", s |-> t] >>, links |-> f.links] :
        f \in Frames, t \in Texts }

\* a site whose main page is one of these pages and that has no administrative paths
DetectServers ==
    { [site |-> Http(200), admin |-> Http(404), exc |-> << >>, page |-> d] : d \in DetectDocs }

DetectTarget == <<"h","t","t","p","s",":","/","/","a",".","i","o">>

\* security_scan_website, called once on each of these pages
InitDetect == Start(DetectServers, "idle")

CallOnce ==
    /\ scan_results = NoResults
    /\ Call(DetectTarget)

NextDetect ==
    \/ CallOnce
    \/ Scan
    \/ Return

SpecDetect == InitDetect /\ [][NextDetect]_vars

(***************************************************************************)
(* What the properties speak of                                            *)
(***************************************************************************)
\* the fetch of url fails: an error of the transport, or a status of 400 and above
FetchFails(url) ==
    \/ ServerOutcome(server, url) = NetErr
    \/ ServerOutcome(server, url).status_code >= 400

\* the fetch of url succeeds
FetchSucceeds(url) == ServerOutcome(server, url) \in {Http(200), Http(204)}

\* the origin of each target: scheme and host
OriginOf(target) ==
    CASE target = <<"h","t","t","p","s",":","/","/","a",".","i","o">>       -> <<"h","t","t","p","s",":","/","/","a",".","i","o">>
      [] target = <<"h","t","t","p","s",":","/","/","a",".","i","o","/","a","d","m","i","n">> -> <<"h","t","t","p","s",":","/","/","a",".","i","o">>
      [] target = <<"h","t","t","p",":","/","/","b",".","i","o","/","x","/","y">>    -> <<"h","t","t","p",":","/","/","b",".","i","o">>

\* the administrative URLs of a target, in the order of ADMIN_PATHS
ResolvedAdminUrls(target) ==
    [i \in DOMAIN ADMIN_PATHS |-> OriginOf(target) \o ADMIN_PATHS[i]]

Answers200(url) == ServerOutcome(server, url) = Http(200)

NoDuplicates(s) == \A i, j \in DOMAIN s : i # j => s[i] # s[j]

\* every request of a scan that runs to its end
RequestPlan(target) == <<target>> \o ResolvedAdminUrls(target)

(***************************************************************************)
(* C1.  When the fetch of the main page fails, the report returned has     *)
(* status Failed, exactly one error, which contains the target URL, and    *)
(* every finding at its initial value.                                     *)
(***************************************************************************)
FailedReport(r) ==
    /\ r.status = "Failed"
    /\ Len(r.errors) = 1
    /\ Contains(r.errors[1], r.target_url)
    /\ r.findings.open_directory = FALSE
    /\ r.findings.outdated_software_indicators = << >>
    /\ r.findings.exposed_admin_panels = << >>
    /\ r.findings.general_info = << >>

C1_FailedMainFetch ==
    /\ (pc = "return" /\ FetchFails(results.target_url)) => FailedReport(results)
    /\ (scan_results.status # "None" /\ FetchFails(scan_results.target_url))
            => FailedReport(scan_results)

\* a scan returns after its main page answered 404
C1_Witness ==
    /\ pc = "return"
    /\ ServerOutcome(server, results.target_url) = Http(404)
    /\ results.status = "Failed"
    /\ results.target_url = <<"h","t","t","p",":","/","/","b",".","i","o","/","x","/","y">>

(***************************************************************************)
(* C2.  The status of a report starts as Incomplete and changes once, to   *)
(* Failed or to Completed; a returned report is Failed or Completed, and   *)
(* Completed exactly when the fetch of the main page succeeded.            *)
(***************************************************************************)
C2_StatusMachine ==
    /\ [](/\ pc = "fetch_main" => results.status = "Incomplete"
          /\ pc = "return" =>
                /\ results.status \in {"Failed", "Completed"}
                /\ results.status = "Completed" <=> FetchSucceeds(results.target_url)
          /\ scan_results.status \in {"None", "Failed", "Completed"})
    /\ [][(/\ results.status # "None"
           /\ results'.status # "None"
           /\ results'.status # results.status)
            => /\ results.status = "Incomplete"
               /\ results'.status \in {"Failed", "Completed"}]_vars

\* a scan completes although a probe met an error and nothing was found
C2_Witness ==
    /\ pc = "return"
    /\ results.status = "Completed"
    /\ results.findings.exposed_admin_panels = << >>
    /\ results.findings.outdated_software_indicators = << >>
    /\ \E u \in DOMAIN server.exc : server.exc[u] = NetErr /\ u \in Range(fetched)

(***************************************************************************)
(* C3.  check_exposed_admin_panels returns the resolved URLs (origin of    *)
(* the target and path) of the paths that answer 200, in the order of      *)
(* ADMIN_PATHS, and no URL twice.                                          *)
(***************************************************************************)
C3_ExposedPanels ==
    (pc = "probe" /\ path_idx > Len(ADMIN_PATHS)) =>
        /\ accessible_panels = SelectSeq(ResolvedAdminUrls(results.target_url), Answers200)
        /\ NoDuplicates(accessible_panels)

\* the probes of a target with a path end: one path answered 204, the others 200
C3_Witness ==
    /\ pc = "probe"
    /\ path_idx > Len(ADMIN_PATHS)
    /\ results.target_url = <<"h","t","t","p","s",":","/","/","a",".","i","o","/","a","d","m","i","n">>
    /\ Len(accessible_panels) = Len(ADMIN_PATHS) - 1
    /\ \E u \in DOMAIN server.exc : server.exc[u] = Http(204)

(***************************************************************************)
(* C4.  A probe that fails ends nothing: after the main page was fetched,  *)
(* every path is probed, the errors of the report stay empty and the scan  *)
(* ends Completed.                                                         *)
(***************************************************************************)
C4_ProbeErrorsNotTerminal ==
    /\ pc = "probe" =>
        /\ results.errors = << >>
        /\ path_idx <= Len(ADMIN_PATHS) + 1
        /\ \A i \in 1..(path_idx - 1) :
                \E j \in DOMAIN fetched :
                    fetched[j] = ResolvedAdminUrls(results.target_url)[i]
    /\ (pc = "return" /\ FetchSucceeds(results.target_url)) =>
        /\ results.errors = << >>
        /\ results.status = "Completed"
        /\ \A i \in DOMAIN ADMIN_PATHS :
                \E j \in DOMAIN fetched :
                    fetched[j] = ResolvedAdminUrls(results.target_url)[i]

\* a scan completes after its first probe failed and the nine others were found
C4_Witness ==
    /\ pc = "return"
    /\ results.status = "Completed"
    /\ results.target_url = <<"h","t","t","p","s",":","/","/","a",".","i","o">>
    /\ FetchFails(<<"h","t","t","p","s",":","/","/","a",".","i","o","/","a","d","m","i","n">>)
    /\ Len(results.findings.exposed_admin_panels) = Len(ADMIN_PATHS) - 1

(***************************************************************************)
(* C5.  The requests of a scan: the main page first; nothing more when it  *)
(* fails; when it succeeds one request for each path of ADMIN_PATHS, in    *)
(* order and one at a time, after the directory and the software checks    *)
(* and before the status is Completed.                                     *)
(***************************************************************************)
C5_RequestSequence ==
    /\ [](/\ pc = "fetch_main" => fetched = << >>
          /\ pc \in {"general_info", "open_directory", "outdated_software", "admin_panels"}
                => fetched = <<results.target_url>>
          /\ pc = "probe" =>
                fetched = SubSeq(RequestPlan(results.target_url), 1, path_idx)
          /\ (pc = "return" /\ results.status = "Failed")
                => fetched = <<results.target_url>>
          /\ (pc = "return" /\ results.status = "Completed")
                => /\ fetched = RequestPlan(results.target_url)
                   /\ Len(fetched) = 1 + Len(ADMIN_PATHS)
          /\ results.status = "Completed" => pc = "return")
    /\ [][/\ Len(fetched') <= Len(fetched) + 1
          /\ pc' = "outdated_software" => pc = "open_directory"
          /\ pc' = "admin_panels" => pc = "outdated_software"
          /\ (pc' = "probe" /\ pc # "probe") => pc = "admin_panels"]_vars

\* a scan made its eleven requests; the target is itself the first administrative URL
C5_Witness ==
    /\ pc = "return"
    /\ results.status = "Completed"
    /\ Len(fetched) = 1 + Len(ADMIN_PATHS)
    /\ fetched[1] = fetched[2]

(***************************************************************************)
(* C6.  Two calls in a row with the same target return equal reports.      *)
(***************************************************************************)
C6_Idempotent ==
    (/\ pc = "return"
     /\ scan_results.status # "None"
     /\ scan_results.target_url = results.target_url)
        => results = scan_results

\* the second of two completed scans of a page with findings and panels returns
C6_Witness ==
    /\ pc = "return"
    /\ scan_results.status = "Completed"
    /\ scan_results.target_url = results.target_url
    /\ results.findings.exposed_admin_panels # << >>
    /\ results.findings.outdated_software_indicators # << >>
    /\ results.findings.open_directory

(***************************************************************************)
(* C7.  The loop passes a URL to the scan with "https://" in front exactly *)
(* when the input has no scheme; an input with a scheme is passed          *)
(* unchanged.                                                              *)
(***************************************************************************)
\* s starts with a scheme and "://"
HasScheme(s) ==
    \E i \in 2..(Len(s) - 2) :
        /\ SubSeq(s, i, i + 2) = <<":","/","/">>
        /\ s[1] \in Letters
        /\ \A j \in 1..(i - 1) : s[j] \in SchemeChars

C7_SchemeNormalization ==
    pc = "fetch_main" =>
        /\ results.target_url = url_input
        /\ url_input = IF HasScheme(Strip(line)) THEN Strip(line)
                       ELSE <<"h","t","t","p","s",":","/","/">> \o Strip(line)

(***************************************************************************)
(* C8.  The loop: "exit" in any letter case ends it and starts no scan; an *)
(* empty input starts no scan and asks again; any other input starts one   *)
(* scan, whose report is printed; after every scan the loop asks again;    *)
(* the loop ends only on "exit".                                           *)
(***************************************************************************)
ExitSpellings ==
    { <<e, x, i, t>> : e \in {"e", "E"}, x \in {"x", "X"}, i \in {"i", "I"}, t \in {"t", "T"} }

C8_LoopProtocol ==
    [][/\ pc = "prompt" =>
            IF Strip(line') \in ExitSpellings
            THEN pc' = "exited" /\ results' = NoResults /\ fetched' = fetched
                    /\ scan_results' = scan_results
            ELSE IF Strip(line') = << >>
            THEN pc' = "prompt" /\ results' = NoResults /\ fetched' = fetched
                    /\ scan_results' = scan_results
            ELSE pc' = "fetch_main" /\ results'.status = "Incomplete" /\ fetched' = << >>
                    /\ scan_results' = scan_results
       /\ pc = "return" =>
            /\ pc' = "prompt"
            /\ scan_results' = results
            /\ Fmt("Target URL: ", results.target_url) \in Range(stdout')
            /\ <<"Scan Status: ", results.status>> \in Range(stdout')
       /\ pc' = "exited" => (pc = "prompt" /\ Strip(line') \in ExitSpellings)
       /\ pc # "exited"]_vars

\* the loop ended on an upper-case EXIT typed after a scan that failed
C8_Witness ==
    /\ pc = "exited"
    /\ line = <<"E","X","I","T">>
    /\ scan_results.status = "Failed"

(***************************************************************************)
(* Phrases in a page text                                                  *)
(***************************************************************************)
\* what each text pattern has before its version number
LeadsOf(p) ==
    CASE p = 1 -> { <<"p","o","w","e","r","e","d"," ","b","y"," ">> \o CmsNames[c] \o <<" ">> \o v :
                        c \in DOMAIN CmsNames, v \in {<< >>, <<"v">>} }
      [] p = 2 -> { <<"v","e","r","s","i","o","n"," ">> }
      [] p = 3 -> { <<"a","p","a","c","h","e","/">> }

\* the positions after a lead of pattern p that starts at t[i]
\* (every lead starts with p, v or a)
LeadEnds(p, t, i) ==
    IF LowerChar(t[i]) \notin {"p", "v", "a"} THEN {}
    ELSE { i + Len(l) : l \in {m \in LeadsOf(p) :
                                /\ i + Len(m) - 1 <= Len(t)
                                /\ Lower(SubSeq(t, i, i + Len(m) - 1)) = m} }

IsDigitAt(t, j) == j <= Len(t) /\ t[j] \in Digits

RECURSIVE NumberEnd(_, _)
\* the position after the digits that start at t[j]
NumberEnd(t, j) == IF IsDigitAt(t, j) THEN NumberEnd(t, j + 1) ELSE j

RECURSIVE NumComponents(_, _)
\* the components of the dotted number that starts at t[j]
NumComponents(t, j) ==
    IF ~IsDigitAt(t, j) THEN 0
    ELSE LET e == NumberEnd(t, j)
         IN  IF e <= Len(t) /\ t[e] = "." /\ IsDigitAt(t, e + 1)
             THEN 1 + NumComponents(t, e + 1)
             ELSE 1

RECURSIVE ComponentsEnd(_, _, _)
\* the position after the first k components of the dotted number at t[j]
ComponentsEnd(t, j, k) ==
    IF k <= 1 THEN NumberEnd(t, j)
    ELSE ComponentsEnd(t, NumberEnd(t, j) + 1, k - 1)

\* the components of the phrase of pattern p at t[i]; 0 when there is none
PhraseComponents(p, t, i) ==
    LET ks == {NumComponents(t, e) : e \in LeadEnds(p, t, i)}
    IN  IF ks = {} THEN 0 ELSE CHOOSE k \in ks : \A m \in ks : m <= k

\* the phrase of pattern p at t[i]: lead and whole version number
PhraseAt(p, t, i) ==
    LET e == CHOOSE x \in LeadEnds(p, t, i) :
                NumComponents(t, x) = PhraseComponents(p, t, i)
    IN  SubSeq(t, i, ComponentsEnd(t, e, NumComponents(t, e)) - 1)

\* the text findings of the report
TextFindingsOf(r) ==
    SelectSeq(r.findings.outdated_software_indicators, LAMBDA f : f[1] = TextMsg)

\* the pattern a text finding belongs to
PatternOf(f) == CHOOSE p \in 1..3 : LeadEnds(p, Tail(f), 1) # {}

\* pattern p has a finding in the report
HasFinding(r, p) ==
    \E n \in DOMAIN TextFindingsOf(r) : PatternOf(TextFindingsOf(r)[n]) = p

\* For every phrase of a pattern whose version number has lo to hi(p)
\* components: the pattern has a finding, and when no phrase of the pattern
\* with at least lo components comes before it, the whole phrase is a finding.
PhrasesFound(lo, hi) ==
    LET t == get_text(server.page)
    IN  \A p \in 1..3 :
            LET starts == {i \in DOMAIN t : PhraseComponents(p, t, i) >= lo}
            IN  \A i \in starts :
                    PhraseComponents(p, t, i) <= hi[p] =>
                        /\ HasFinding(results, p)
                        /\ (\A h \in starts : i <= h)
                            => Fmt(TextMsg, PhraseAt(p, t, i))
                                    \in Range(results.findings.outdated_software_indicators)

(***************************************************************************)
(* C9.  As claimed: every phrase "powered by <cms> v?<version>", "version  *)
(* <version>" or "apache/<version>" with a version number of one to four   *)
(* components is matched and found with its whole version number.          *)
(***************************************************************************)
C9_OneToFourComponents ==
    pc = "return" => PhrasesFound(1, <<4, 4, 4>>)

(***************************************************************************)
(* C9, amended.  Every such phrase with a version number of two to four    *)
(* components (two or three after "apache/") is matched, and the first     *)
(* such phrase of its pattern is found with its whole version number.      *)
(***************************************************************************)
C9_TwoToFourComponents ==
    pc = "return" => PhrasesFound(2, <<4, 4, 3>>)

\* a first phrase "powered by ..." with four components is found whole
C9_Witness ==
    /\ pc = "return"
    /\ \E i \in DOMAIN get_text(server.page) :
        /\ PhraseComponents(1, get_text(server.page), i) = 4
        /\ \A h \in 1..(i - 1) : PhraseComponents(1, get_text(server.page), h) < 2
        /\ Fmt(TextMsg, PhraseAt(1, get_text(server.page), i))
                \in Range(results.findings.outdated_software_indicators)

(***************************************************************************)
(* C10.  The findings of check_outdated_software: the generator finding    *)
(* (at most one) first, then at most one finding for each text pattern in  *)
(* pattern order, then one finding for each <script> or <link> with a      *)
(* ver= parameter in document order; the checks fire independently, no     *)
(* finding is dropped, and the report holds this sequence unchanged.       *)
(***************************************************************************)
Rank(f) == CASE f[1] = MetaMsg -> 1 [] f[1] = TextMsg -> 2 [] f[1] = LinkMsg -> 3

\* the first generator meta tag of the page has a content
GeneratorNamed(doc) ==
    \E i \in DOMAIN doc.metas :
        /\ doc.metas[i].name = "generator"
        /\ doc.metas[i].has_content
        /\ \A j \in 1..(i - 1) : doc.metas[j].name # "generator"

\* the URL of a <script> or <link>: its src, or else its href
UrlOf(link) ==
    IF link.has_src /\ link.src # << >> THEN link.src
    ELSE IF link.has_href THEN link.href ELSE << >>

\* the URL holds ver= and a number of two components or more
HasVerParam(link) ==
    \E i \in DOMAIN UrlOf(link) :
        /\ i + 3 <= Len(UrlOf(link))
        /\ SubSeq(UrlOf(link), i, i + 3) = <<"v","e","r","=">>
        /\ NumComponents(UrlOf(link), i + 4) >= 2

C10_FindingsOrder ==
    pc = "return" /\ results.status = "Completed" =>
        LET doc == server.page
            f == results.findings.outdated_software_indicators
            metaf == SelectSeq(f, LAMBDA x : x[1] = MetaMsg)
            textf == TextFindingsOf(results)
            linkf == SelectSeq(f, LAMBDA x : x[1] = LinkMsg)
            versioned == SelectSeq(doc.links, HasVerParam)
        IN  /\ f = check_outdated_software(doc)
            /\ \A i, j \in DOMAIN f : i < j => Rank(f[i]) <= Rank(f[j])
            /\ Len(metaf) = IF GeneratorNamed(doc) THEN 1 ELSE 0
            /\ \A i, j \in DOMAIN textf : i < j => PatternOf(textf[i]) < PatternOf(textf[j])
            /\ \A p \in 1..3 :
                    HasFinding(results, p) <=>
                        \E i \in DOMAIN get_text(doc) : PhraseComponents(p, get_text(doc), i) >= 2
            /\ Len(linkf) = Len(versioned)
            /\ \A n \in DOMAIN linkf :
                    SubSeq(linkf[n], 2, 1 + Len(UrlOf(versioned[n]))) = UrlOf(versioned[n])

\* all three checks fired, two patterns matched and the same resource was found twice
C10_Witness ==
    /\ pc = "return"
    /\ Len(results.findings.outdated_software_indicators) = 6
    /\ Len(TextFindingsOf(results)) = 2
    /\ \E i, j \in DOMAIN results.findings.outdated_software_indicators :
        /\ i < j
        /\ results.findings.outdated_software_indicators[i]
                = results.findings.outdated_software_indicators[j]

=============================================================================
